---- MODULE Spec2Model ----
(***************************************************************************)
(* A model of cohost-randombot: the backoff scheduler (tryagain.py), the   *)
(* resilient request executor, the author resolver and the share-lineage   *)
(* resolver, the tag analysis and its cache (cohost.py), the lock and the   *)
(* ask instructions (manager.py) and the selection loop (randomizer.py).   *)
(*                                                                         *)
(* Python values are modelled as follows.                                  *)
(*   str            a sequence of one-character strings                    *)
(*   Optional[int]  [some |-> FALSE] or [some |-> TRUE, v |-> n]           *)
(*   datetime       [days, seconds, microseconds]: days is the proleptic   *)
(*                  Gregorian ordinal, as in datetime.toordinal()          *)
(*   timedelta      [days, seconds, microseconds], normalised as Python    *)
(*                  normalises it (0 <= seconds < 86400, 0 <= us < 10^6)   *)
(*   dict           a sequence of [k, v] pairs with distinct keys          *)
(*   JSON           [t |-> "obj", o |-> dict], [t |-> "list", l |-> seq],  *)
(*                  [t |-> "str", s |-> string], [t |-> "int", n |-> n]    *)
(*   an exception   [exc |-> class name, ...]                              *)
(***************************************************************************)
EXTENDS Integers, Sequences, FiniteSets, TLC

VARIABLES
    \* ---- one call of _try_with_backoff, one loop iteration per step
    url,          \* the argument `url`
    failures,     \* the local `failures`
    requests,     \* number of client.request calls made by this call
    sleeps,       \* the arguments of time.sleep, in order
    hinted,       \* number of responses so far that carried retry-after
    resp,         \* the response of the latest request
    outcome,      \* how the call ended: none yet, a return, or a raise
    \* ---- one call of try_post
    pc,           \* where try_post is: the call it makes next
    pid,          \* the argument `pid`
    classic,      \* how the fetch inside get_author_classic ended
    timeout,      \* the local `timeout` of get_author_hacky
    known_pid,    \* the id of the scratch post, once read
    dummy,        \* dummy_model, once built
    primary,      \* what the try block of get_author_hacky returns or raises
    cleanup,      \* how the delete call of the finally block ended
    hacky,        \* how get_author_hacky ended
    author_name,  \* the local `author_name` of try_post
    result,       \* how try_post ended
    probes,       \* calls of get_author_hacky
    creates,      \* create requests that succeeded
    polls,        \* fetches of the scratch post's record
    waits,        \* calls of time.sleep(0.5) in the polling loop
    deletes,      \* delete operations started
    \* ---- one call of find_the_original_content
    fin, fout,
    \* ---- one call of parse_retry_after
    p_retry_str,  \* the argument `retry_str`
    p_failures,   \* the argument `failures`
    now,          \* what datetime.now() reads during the call
    parsed_out,   \* how the call ended
    \* ---- one call of _tag_analyze, one pass of its loop per step
    tag_name,     \* the argument `tag_name`
    target,       \* the argument `target`
    max_pages,    \* the argument `max_pages`
    reft,         \* the local `reft`
    page_count,   \* the local `page_count`
    uniques,      \* the local `uniques`
    offset,       \* the local `offset`
    query,        \* the query of the latest page request, as sent
    latest,       \* the pages fetched so far: the handle links and the
                  \* distinct handles seen on them, and the next-page link
                  \* of the latest one
    before,       \* the same, when the latest request was sent
    fetches,      \* page requests made by the call
    analysis,     \* how the call ended
    \* ---- threads calling tag_analyze through functools.cache
    cache,        \* the dict of the cache wrapper: key -> result, when present
    thr,          \* each thread: where its call is, its arguments, its result
    first,        \* per (tag, target): the result of the first call returned
    hit,          \* per key: the first result a caller read from the cache
    ncalls,       \* calls made so far
    \* ---- processes running manager.main
    lock,         \* whether the file .lock exists
    creator,      \* the process whose open() created the file (0: an earlier run)
    m_pc,         \* where each process is in main
    max_duration, \* each process's local `max_duration`
    removed,      \* per process: whose file its os.remove deleted (0: none yet)
    \* ---- one call of manager.parse, one instruction per step
    asker,        \* context.askingProject.projectId
    instructions, \* the lines of the ask's randomizer block (None: no block)
    ip,           \* instructions handled so far
    op_call,      \* the latest call of op_delete: its target, the post found,
                  \* whether delete() was called
    ndeletes,     \* calls of delete() so far
    rejected,     \* ask_reject(context.askId) was called
    parse_out,    \* how parse ended
    \* ---- one run of randomizer.main, one pass of the selection loop per step
    r_pc,         \* where main is: in the loop, past it, or how it ended
    r_last,       \* the local `last`
    r_latest,     \* the local `latest`
    ban_list,     \* the local `ban_list`
    max_att,      \* the local `max_att`
    post_info,    \* the local `post_info` (None before the first fetch)
    eft,          \* the local `eft`
    verify_with,  \* the local `verify_with`, once bound
    tried,        \* per post id: calls of cohost.try_post with it
    passed,       \* the tags for which tag_analyze(tag, 3) returned
                  \* target-met true during the latest pass
    shared        \* the post ids handed to the share call

requestVars == <<url, failures, requests, sleeps, hinted, resp, outcome>>
tryPostVars == <<pc, pid, classic, timeout, known_pid, dummy, primary, cleanup,
                 hacky, author_name, result, probes, creates, polls, waits,
                 deletes>>
collapseVars == <<fin, fout>>
parseVars == <<p_retry_str, p_failures, now, parsed_out>>
tagVars == <<tag_name, target, max_pages, reft, page_count, uniques, offset,
             query, latest, before, fetches, analysis>>
cacheVars == <<cache, thr, first, hit, ncalls>>
lockVars == <<lock, creator, m_pc, max_duration, removed>>
askVars == <<asker, instructions, ip, op_call, ndeletes, rejected, parse_out>>
pickVars == <<r_pc, r_last, r_latest, ban_list, max_att, post_info, eft,
              verify_with, tried, passed, shared>>
botVars == <<lockVars, askVars, pickVars>>
vars == <<requestVars, tryPostVars, collapseVars, parseVars, tagVars, cacheVars,
          botVars>>

None == [some |-> FALSE]
Some(n) == [some |-> TRUE, v |-> n]

\* ------------------------------------------------------------------------
\* datetime and timedelta arithmetic (the Python standard library)

\* a variant that drops whole days
timedelta_within_day(secs) ==
    [days |-> 0, seconds |-> secs % 86400, microseconds |-> 0]

\* timedelta(seconds=secs), normalised
timedelta(secs) ==
    [days |-> secs \div 86400, seconds |-> secs % 86400, microseconds |-> 0]

IsLeap(y) == (y % 4 = 0) /\ ((y % 100 # 0) \/ (y % 400 = 0))

DaysInMonth(y, m) ==
    IF m = 2 THEN (IF IsLeap(y) THEN 29 ELSE 28)
    ELSE IF m \in {4, 6, 9, 11} THEN 30 ELSE 31

DaysBeforeMonth(y, m) ==
    <<0, 31, 59, 90, 120, 151, 181, 212, 243, 273, 304, 334>>[m]
    + (IF m > 2 /\ IsLeap(y) THEN 1 ELSE 0)

Ordinal(y, m, d) ==
    (y - 1) * 365 + ((y - 1) \div 4) - ((y - 1) \div 100) + ((y - 1) \div 400)
    + DaysBeforeMonth(y, m) + d

datetime(y, m, d, hh, mm, ss, us) ==
    [days |-> Ordinal(y, m, d), seconds |-> hh * 3600 + mm * 60 + ss,
     microseconds |-> us]

\* datetime < datetime
DtLess(a, b) ==
    \/ a.days < b.days
    \/ a.days = b.days /\ a.seconds < b.seconds
    \/ a.days = b.days /\ a.seconds = b.seconds /\ a.microseconds < b.microseconds

\* datetime + timedelta
DtPlus(a, td) ==
    LET us == a.microseconds + td.microseconds
        s  == a.seconds + td.seconds + (us \div 1000000)
    IN  [days |-> a.days + td.days + (s \div 86400),
         seconds |-> s % 86400, microseconds |-> us % 1000000]

\* datetime - datetime, a normalised timedelta
DtMinus(a, b) ==
    LET us == a.microseconds - b.microseconds
        s  == a.seconds - b.seconds + (us \div 1000000)
    IN  [days |-> a.days - b.days + (s \div 86400),
         seconds |-> s % 86400, microseconds |-> us % 1000000]

\* ------------------------------------------------------------------------
\* tryagain.py

minimum == 0
backoff_base == 2

\* a variant that ignores the failure count
backoff_flat(f) == timedelta(backoff_base + minimum)

backoff(f) == timedelta(backoff_base ^ f + minimum)

Digits == {"0", "1", "2", "3", "4", "5", "6", "7", "8", "9"}
DigitVal(c) ==
    CASE c = "0" -> 0 [] c = "1" -> 1 [] c = "2" -> 2 [] c = "3" -> 3
      [] c = "4" -> 4 [] c = "5" -> 5 [] c = "6" -> 6 [] c = "7" -> 7
      [] c = "8" -> 8 [] c = "9" -> 9

RECURSIVE int(_)
int(s) == IF s = <<>> THEN 0
          ELSE 10 * int(SubSeq(s, 1, Len(s) - 1)) + DigitVal(s[Len(s)])

\* re.match(r'^\d+$', s)
AllNumbers(s) == Len(s) >= 1 /\ \A i \in 1..Len(s) : s[i] \in Digits

Weekdays == {<<"M","o","n">>, <<"T","u","e">>, <<"W","e","d">>, <<"T","h","u">>,
             <<"F","r","i">>, <<"S","a","t">>, <<"S","u","n">>}
_month ==
    <<<<"J","a","n">>, <<"F","e","b">>, <<"M","a","r">>, <<"A","p","r">>,
      <<"M","a","y">>, <<"J","u","n">>, <<"J","u","l">>, <<"A","u","g">>,
      <<"S","e","p">>, <<"O","c","t">>, <<"N","o","v">>, <<"D","e","c">>>>

\* the date pattern of parse_retry_after:
\* "Www, DD Mon YYYY HH:MM:SS GMT", 29 characters
DateMatch(s) ==
    /\ Len(s) = 29
    /\ SubSeq(s, 1, 3) \in Weekdays
    /\ SubSeq(s, 4, 5) = <<",", " ">>
    /\ \A i \in {6, 7, 13, 14, 15, 16, 18, 19, 21, 22, 24, 25} : s[i] \in Digits
    /\ s[8] = " "
    /\ \E m \in 1..12 : SubSeq(s, 9, 11) = _month[m]
    /\ s[12] = " " /\ s[17] = " " /\ s[20] = ":" /\ s[23] = ":"
    /\ SubSeq(s, 26, 29) = <<" ", "G", "M", "T">>

MonthOf(s) == CHOOSE m \in 1..12 : SubSeq(s, 9, 11) = _month[m]

\* datetime.strptime(rebuild, '%d %Y %H %M %S %m') accepts the fields
Strptime_ok(y, m, d, hh, mm, ss) ==
    /\ y >= 1
    /\ d >= 1 /\ d <= DaysInMonth(y, m)
    /\ hh <= 23 /\ mm <= 59 /\ ss <= 59

\* parse_retry_after(retry_str, failures); now1 and now2 are what the two
\* datetime.now() calls it can make read. The result is a datetime, None
\* (the function falls off its end) or a raised ValueError (strptime).
parse_retry_after(retry_str, f, now1, now2) ==
    IF ~AllNumbers(retry_str)
    THEN IF DateMatch(retry_str)
         THEN LET d  == int(SubSeq(retry_str, 6, 7))
                  mo == MonthOf(retry_str)
                  y  == int(SubSeq(retry_str, 13, 16))
                  hh == int(SubSeq(retry_str, 18, 19))
                  mm == int(SubSeq(retry_str, 21, 22))
                  ss == int(SubSeq(retry_str, 24, 25))
              IN  IF ~Strptime_ok(y, mo, d, hh, mm, ss)
                  THEN [kind |-> "raise", exc |-> "ValueError"]
                  ELSE LET parsed == datetime(y, mo, d, hh, mm, ss, 0)
                       IN  IF DtLess(parsed, now1)
                           THEN [kind |-> "datetime", v |-> DtPlus(now2, backoff(f))]
                           ELSE [kind |-> "datetime", v |-> DtPlus(parsed, timedelta(1))]
         ELSE [kind |-> "None"]
    ELSE [kind |-> "datetime", v |-> DtPlus(now1, timedelta(int(retry_str)))]

\* ------------------------------------------------------------------------
\* dicts and JSON. A dict (response headers, a JSON object) is a sequence of
\* [k, v] pairs with distinct keys.

Has(d, key) == \E i \in 1..Len(d) : d[i].k = key
Get(d, key) == d[CHOOSE i \in 1..Len(d) : d[i].k = key].v

Str(s)  == [t |-> "str", s |-> s]
Num(n)  == [t |-> "int", n |-> n]
Obj(kv) == [t |-> "obj", o |-> kv]
List(l) == [t |-> "list", l |-> l]

\* a response body: text that resp.json() rejects, or a JSON document
Text(s) == [json |-> FALSE, text |-> s]
Json(v) == [json |-> TRUE, js |-> v]

\* ------------------------------------------------------------------------
\* cohost.py: _try_with_backoff

MAX_RETRY == 10

Retryable(status_code) ==
    status_code = 418 \/ (500 <= status_code /\ status_code <= 599)

Continue == [kind |-> "none"]
Return(r) == [kind |-> "return", resp |-> r]
Raise(e) == [kind |-> "raise", exc |-> e]
RaiseTimeout(f) == [kind |-> "raise", exc |-> "TimeoutError", n |-> f]
RaiseStatus(status_code, u) ==
    [kind |-> "raise", exc |-> "ValueError", status |-> status_code, url |-> u]

\* The try block of the status-error branch: the name of the exception that
\* escapes it, or "none" when it completes or raises one of the two
\* exceptions it catches (ValueError, KeyError).
ExtractMessage(r) ==
    IF ~r.body.json THEN "none"                       \* resp.json(): ValueError
    ELSE LET js == r.body.js IN
      CASE js.t = "obj" ->
             IF Has(js.o, "message") /\ Get(js.o, "message").t # "str"
             THEN "AttributeError"                    \* .strip()
             ELSE "none"                              \* js[0]: KeyError
        [] js.t = "list" ->
             IF \E i \in 1..Len(js.l) : js.l[i] = Str("message")
             THEN "TypeError"                         \* js["message"]
             ELSE IF Len(js.l) = 0 THEN "IndexError"  \* js[0]
             ELSE LET e == js.l[1] IN
               IF e.t # "obj" THEN "TypeError"        \* js[0]["error"]
               ELSE IF ~Has(e.o, "error") THEN "none" \* KeyError
               ELSE LET er == Get(e.o, "error") IN
                 CASE er.t = "obj" ->
                        IF Has(er.o, "message") /\ Get(er.o, "message").t # "str"
                        THEN "AttributeError"
                        ELSE "none"
                   [] er.t = "list" ->
                        IF \E i \in 1..Len(er.l) : er.l[i] = Str("message")
                        THEN "TypeError"
                        ELSE "none"
                   [] OTHER -> "TypeError"            \* "message" in <scalar>
        [] OTHER -> "TypeError"                       \* a scalar document

\* timedelta.seconds: the seconds field of the normalised value
Seconds(td) == td.seconds

\* One iteration of the while loop, for the response r of its request.
\* f is `failures` on entry, u the url; now1 and now2 are the clock readings
\* inside parse_retry_after, now3 the one of `new_schedule - datetime.now()`.
\* Gives `failures` after the iteration, the time.sleep calls it made and
\* how it left the loop.
Iteration(f, r, u, now1, now2, now3) ==
    IF Retryable(r.status_code)
    THEN LET f1 == f + 1 IN
         IF f1 > MAX_RETRY
         THEN [failures |-> f1, slept |-> <<>>, outcome |-> RaiseTimeout(f1)]
         ELSE IF Has(r.headers, "retry-after")
         THEN LET p == parse_retry_after(Get(r.headers, "retry-after"), f1, now1, now2)
              IN  CASE p.kind = "raise" ->
                         [failures |-> f1, slept |-> <<>>, outcome |-> Raise(p.exc)]
                    [] p.kind = "None" ->              \* None - datetime
                         [failures |-> f1, slept |-> <<>>, outcome |-> Raise("TypeError")]
                    [] OTHER ->
                         [failures |-> f1, slept |-> <<Seconds(DtMinus(p.v, now3))>>,
                          outcome |-> Continue]
         ELSE [failures |-> f1, slept |-> <<Seconds(backoff(f1))>>,
               outcome |-> Continue]
    ELSE IF r.status_code # 200
    THEN LET x == ExtractMessage(r) IN
         [failures |-> f, slept |-> <<>>,
          outcome |-> IF x = "none" THEN RaiseStatus(r.status_code, u) ELSE Raise(x)]
    ELSE [failures |-> f, slept |-> <<>>, outcome |-> Return(r)]

\* ------------------------------------------------------------------------
\* The transport: what client.request can answer, and what the clock reads.

MaxHints == 1      \* responses of one call that carry a retry-after header

HintSeconds == <<"1","2","0">>
HintWord == <<"s","o","o","n">>
HintPastDate ==
    <<"M","o","n",","," ","0","1"," ","J","a","n"," ","2","0","2","3"," ",
      "0","1",":","0","2",":","0","3"," ","G","M","T">>
HintFutureDate ==
    <<"M","o","n",","," ","0","1"," ","J","a","n"," ","2","0","2","4"," ",
      "0","1",":","0","2",":","0","3"," ","G","M","T">>
HintNoSuchDay ==
    <<"M","o","n",","," ","3","1"," ","F","e","b"," ","2","0","2","3"," ",
      "0","1",":","0","2",":","0","3"," ","G","M","T">>
Hints == {HintSeconds, HintWord, HintPastDate, HintFutureDate, HintNoSuchDay}

NoHeaders == <<>>
RetryAfter(h) == <<[k |-> "retry-after", v |-> h]>>

Response(status_code, headers, body) ==
    [status_code |-> status_code, headers |-> headers, body |-> body]

RetryableStatuses == {418, 500, 599}
FatalStatuses == {404, 499, 600}

\* the body shapes of a status error
BodyShapes ==
    { Text(""), Text("<html>"),
      Json(Obj(<<[k |-> "message", v |-> Str(" no ")]>>)),
      Json(Obj(<<>>)),
      Json(List(<<>>)),
      Json(List(<<Obj(<<[k |-> "error",
                         v |-> Obj(<<[k |-> "message", v |-> Str("bad")]>>)]>>)>>)),
      Json(List(<<Obj(<<[k |-> "error", v |-> Obj(<<>>)]>>)>>)),
      Json(List(<<Obj(<<>>)>>)) }

OkBody == Json(List(<<Obj(<<[k |-> "result", v |-> Obj(<<>>)]>>)>>))

RetryableResponses ==
    { Response(s, h, Text("")) :
        s \in RetryableStatuses,
        h \in {NoHeaders} \cup { RetryAfter(x) : x \in Hints } }
FatalResponses ==
    { Response(404, NoHeaders, b) : b \in BodyShapes }
    \cup { Response(s, NoHeaders, Text("")) : s \in FatalStatuses }
OkResponses == { Response(200, NoHeaders, OkBody) }
Responses == RetryableResponses \cup FatalResponses \cup OkResponses

Now0 == datetime(2023, 6, 15, 12, 0, 0, 0)
Clock == { Now0, DtPlus(Now0, [days |-> 0, seconds |-> 0, microseconds |-> 250000]) }
\* three successive readings of the clock
Readings ==
    { t \in Clock \X Clock \X Clock : ~DtLess(t[2], t[1]) /\ ~DtLess(t[3], t[2]) }

Urls == {"https://cohost.org/a", "https://cohost.org/b"}

\* ------------------------------------------------------------------------
\* One call of _try_with_backoff against an arbitrary server.

NoResponse == Response(0, NoHeaders, Text(""))

RequestIdle ==
    /\ url = "" /\ failures = 0 /\ requests = 0 /\ sleeps = <<>> /\ hinted = 0
    /\ resp = NoResponse /\ outcome = Continue
TryPostIdle ==
    /\ pc = "idle" /\ pid = 0 /\ classic = Continue /\ timeout = 0
    /\ known_pid = None /\ dummy = None /\ primary = Continue
    /\ cleanup = Continue /\ hacky = Continue /\ author_name = None
    /\ result = Continue
    /\ probes = 0 /\ creates = 0 /\ polls = 0 /\ waits = 0 /\ deletes = 0
CollapseIdle == fin = None /\ fout = Continue
ParseIdle ==
    p_retry_str = <<>> /\ p_failures = 0 /\ now = Now0 /\ parsed_out = Continue
\* no page fetched yet
NoPages == [seen |-> 0, distinct |-> 0, link |-> FALSE, cursor |-> <<>>]
TagIdle ==
    /\ tag_name = "" /\ target = 0 /\ max_pages = 0 /\ reft = None
    /\ page_count = 0 /\ uniques = {} /\ offset = 0 /\ query = <<>>
    /\ latest = NoPages /\ before = NoPages /\ fetches = 0
    /\ analysis = Continue

\* the calls the threads make: tag_analyze(tag, target) as the program
\* calls it, and tag_analyze(tag, target, max_pages); the wrapper's key is
\* the tuple of the positional arguments given
SampleTarget == 3
DefaultMaxPages == 10
Tags == {"art", "The Cohost Global Feed"}
Keys ==
    { <<g, SampleTarget>> : g \in Tags }
    \cup { <<g, SampleTarget, DefaultMaxPages>> : g \in Tags }
PairOf(args) == <<args[1], args[2]>>
Pairs == { PairOf(k) : k \in Keys }
MaxThreads == 2
MaxCalls == 3
Threads == 1..MaxThreads
IdleThread ==
    [pc |-> "idle", args |-> <<>>, ret |-> Continue, fetched |-> 0,
     after |-> None, read |-> None]
CacheIdle ==
    /\ cache = [k \in Keys |-> None] /\ thr = [t \in Threads |-> IdleThread]
    /\ first = [q \in Pairs |-> None] /\ hit = [k \in Keys |-> None]
    /\ ncalls = 0

\* manager.main, run by several processes in one directory
MaxProcs == 2
Procs == 1..MaxProcs
LockWait == 120
LockIdle ==
    /\ lock = FALSE /\ creator = 0 /\ m_pc = [p \in Procs |-> "idle"]
    /\ max_duration = [p \in Procs |-> 0] /\ removed = [p \in Procs |-> 0]
NoCall == [target |-> 0, post |-> Continue, deleted |-> FALSE]
AskIdle ==
    /\ asker = 0 /\ instructions = None /\ ip = 0 /\ op_call = NoCall
    /\ ndeletes = 0 /\ rejected = FALSE /\ parse_out = Continue
PickIdle ==
    /\ r_pc = "idle" /\ r_last = 0 /\ r_latest = 0 /\ ban_list = {} /\ max_att = 0 /\ post_info = None
    /\ eft = <<>> /\ verify_with = None /\ tried = <<>> /\ passed = {}
    /\ shared = <<>>
BotIdle == LockIdle /\ AskIdle /\ PickIdle

InitRequest ==
    /\ url \in Urls /\ failures = 0 /\ requests = 0 /\ sleeps = <<>> /\ hinted = 0
    /\ resp = NoResponse /\ outcome = Continue
    /\ TryPostIdle /\ CollapseIdle /\ ParseIdle /\ TagIdle /\ CacheIdle /\ BotIdle

\* client.request(...) and the rest of the loop body
Attempt ==
    /\ outcome.kind = "none"
    /\ \E r \in Responses, t \in Readings :
         LET it == Iteration(failures, r, url, t[1], t[2], t[3]) IN
         /\ Has(r.headers, "retry-after") => hinted < MaxHints
         /\ hinted' = hinted + (IF Has(r.headers, "retry-after") THEN 1 ELSE 0)
         /\ requests' = requests + 1
         /\ resp' = r
         /\ failures' = it.failures
         /\ sleeps' = sleeps \o it.slept
         /\ outcome' = it.outcome
    /\ UNCHANGED <<url, tryPostVars, collapseVars, parseVars, tagVars,
                   cacheVars, botVars>>

NextRequest == Attempt
SpecRequest == InitRequest /\ [][NextRequest]_vars

\* ------------------------------------------------------------------------
\* Python indexing, and reading a JSON document

\* l[i] is defined (no IndexError); i may be negative
InRange(l, i) == IF i >= 0 THEN i < Len(l) ELSE 0 - i <= Len(l)
\* l[i]
At(l, i) == IF i >= 0 THEN l[i + 1] ELSE l[Len(l) + i + 1]
\* l[:k]
SliceTo(l, k) ==
    LET n == IF k >= 0 THEN (IF k < Len(l) THEN k ELSE Len(l))
             ELSE (IF Len(l) + k > 0 THEN Len(l) + k ELSE 0)
    IN  SubSeq(l, 1, n)

Ret(v) == [kind |-> "return", v |-> v]

\* what `except ValueError` catches: ValueError and its subclasses
\* (json's JSONDecodeError, pydantic's ValidationError)
IsValueError(o) ==
    o.kind = "raise" /\ o.exc \in {"ValueError", "JSONDecodeError", "ValidationError"}

\* resp.json()
resp_json(r) == IF r.body.json THEN Ret(r.body.js) ELSE Raise("JSONDecodeError")

\* x[0]
Item0(x) ==
    CASE x.t = "list" -> IF Len(x.l) = 0 THEN Raise("IndexError") ELSE Ret(x.l[1])
      [] x.t = "obj" -> Raise("KeyError")
      [] OTHER -> Raise("TypeError")

\* x[key], key a string
Item(x, key) ==
    CASE x.t = "obj" -> IF Has(x.o, key) THEN Ret(Get(x.o, key)) ELSE Raise("KeyError")
      [] OTHER -> Raise("TypeError")

\* x[0]["result"]["data"]
ResultData(x) ==
    LET a == Item0(x) IN
    IF a.kind = "raise" THEN a
    ELSE LET b == Item(a.v, "result") IN
         IF b.kind = "raise" THEN b ELSE Item(b.v, "data")

Null == [t |-> "null"]
\* a JSON string that is a path, kept as its split("/")
Href(segments) == [t |-> "str", split |-> segments]

\* PostModel and ExtendedInfoModel: the fields the algorithms read
ValidProject(x) ==
    /\ x.t = "obj"
    /\ Has(x.o, "projectId") /\ Get(x.o, "projectId").t = "int"
    /\ Has(x.o, "handle") /\ Get(x.o, "handle").t = "str"

RECURSIVE ValidPost(_)
ValidPost(x) ==
    /\ x.t = "obj"
    /\ Has(x.o, "postId") /\ Get(x.o, "postId").t = "int"
    /\ Has(x.o, "transparentShareOfPostId")
    /\ Get(x.o, "transparentShareOfPostId").t \in {"int", "null"}
    /\ Has(x.o, "postingProject") /\ ValidProject(Get(x.o, "postingProject"))
    /\ Has(x.o, "shareTree") /\ Get(x.o, "shareTree").t = "list"
    /\ \A i \in 1..Len(Get(x.o, "shareTree").l) : ValidPost(Get(x.o, "shareTree").l[i])

RECURSIVE PostModel(_)
PostModel(x) ==
    [postId |-> Get(x.o, "postId").n,
     transparentShareOfPostId |->
        IF Get(x.o, "transparentShareOfPostId").t = "null" THEN None
        ELSE Some(Get(x.o, "transparentShareOfPostId").n),
     postingProject |->
        [projectId |-> Get(Get(x.o, "postingProject").o, "projectId").n,
         handle |-> Get(Get(x.o, "postingProject").o, "handle").s],
     shareTree |->
        [i \in 1..Len(Get(x.o, "shareTree").l) |-> PostModel(Get(x.o, "shareTree").l[i])]]

\* ExtendedInfoModel(**data)
ExtendedInfoModel(data) ==
    IF data.t # "obj" THEN Raise("TypeError")
    ELSE IF /\ Has(data.o, "post") /\ ValidPost(Get(data.o, "post"))
            /\ Has(data.o, "comments") /\ Get(data.o, "comments").t = "obj"
    THEN Ret([post |-> PostModel(Get(data.o, "post")),
              comments |-> Get(data.o, "comments").o])
    ELSE Raise("ValidationError")

\* ------------------------------------------------------------------------
\* cohost.py: get_author_classic

\* x["href"].startswith("/api/v1/project/") and not x["href"].endswith("/posts")
IsAuthorLink(x) ==
    LET h == Get(x.o, "href").split IN
    /\ Len(h) >= 5 /\ SubSeq(h, 1, 4) = <<"", "api", "v1", "project">>
    /\ ~(Len(h) >= 2 /\ h[Len(h)] = "posts")

RECURSIVE Filter(_)
Filter(links) ==
    IF links = <<>> THEN <<>>
    ELSE (IF IsAuthorLink(Head(links)) THEN <<Head(links)>> ELSE <<>>)
         \o Filter(Tail(links))

\* get_author_classic, given how its _try_with_backoff call ended
get_author_classic(fetch) ==
    IF fetch.kind = "raise" THEN fetch
    ELSE LET j == resp_json(fetch.resp) IN
         IF j.kind = "raise" THEN j
         ELSE LET links == Item(j.v, "_links") IN
              IF links.kind = "raise" THEN links
              ELSE IF links.v.t # "list" THEN Raise("TypeError")
              ELSE LET author == Filter(links.v.l) IN
                   IF ~InRange(author, 0) THEN Raise("IndexError")
                   ELSE LET h == Get(At(author, 0).o, "href").split
                        IN  Ret(At(h, 0 - 1))

\* ------------------------------------------------------------------------
\* cohost.py: get_author_hacky

RaiseMsg(e, m) == [kind |-> "raise", exc |-> e, msg |-> m]

\* create_info = resp.json(); known_pid = create_info[0]["result"]["data"]["postId"]
CreatedPid(r) ==
    LET j == resp_json(r) IN
    IF j.kind = "raise" THEN j
    ELSE LET d == ResultData(j.v) IN
         IF d.kind = "raise" THEN d
         ELSE LET i == Item(d.v, "postId") IN
              IF i.kind = "raise" THEN i ELSE Ret(i.v.n)

\* the except ValueError branch of the polling loop
\* a variant whose budget check is late by one pass
PollFailure_late(t) ==
    [timeout |-> t - 1,
     slept |-> t - 1 >= 0,
     outcome |-> IF t - 1 < 0
                 THEN RaiseMsg("ValueError", "never got post info for dummy share")
                 ELSE Continue]

\* the except ValueError clause of the polling loop, entered with timeout = t
PollFailure(t) ==
    [timeout |-> t - 1,
     slept |-> t - 1 # 0,
     outcome |-> IF t - 1 = 0
                 THEN RaiseMsg("ValueError", "never got post info for dummy share")
                 ELSE Continue]

\* a variant without the check of the tail's postId
ReadTail_unchecked(dummy_model, p) ==
    LET tree == dummy_model.post.shareTree IN
    IF ~InRange(tree, 0 - 1) THEN Raise("IndexError")
    ELSE Ret(At(tree, 0 - 1).postingProject.handle)

\* base_post_info = dummy_model.post.shareTree[-1] and the check of its postId
ReadTail(dummy_model, p) ==
    LET tree == dummy_model.post.shareTree IN
    IF ~InRange(tree, 0 - 1) THEN Raise("IndexError")
    ELSE LET base_post_info == At(tree, 0 - 1) IN
         IF base_post_info.postId # p
         THEN RaiseMsg("ValueError", "mismatch")
         ELSE Ret(base_post_info.postingProject.handle)

\* One pass of the polling loop and, when it leaves the loop, the rest of
\* the try block, given how _try_with_backoff(get_info_url) ended.
\* left: the try block is over, with `primary` its return or raise.
HackyTry(fetch, p, t) ==
    LET j == IF fetch.kind = "raise" THEN fetch ELSE resp_json(fetch.resp) IN
    IF IsValueError(j)
    THEN LET pf == PollFailure(t) IN
         [timeout |-> pf.timeout, left |-> pf.outcome.kind = "raise",
          slept |-> pf.slept, primary |-> pf.outcome, dummy |-> None]
    ELSE IF j.kind = "raise"
    THEN [timeout |-> t, left |-> TRUE, slept |-> FALSE, primary |-> j, dummy |-> None]
    ELSE LET d == ResultData(j.v) IN
         IF d.kind = "raise"
         THEN [timeout |-> t, left |-> TRUE, slept |-> FALSE, primary |-> d,
               dummy |-> None]
         ELSE LET m == ExtendedInfoModel(d.v) IN
              IF m.kind = "raise"
              THEN [timeout |-> t, left |-> TRUE, slept |-> FALSE, primary |-> m,
                    dummy |-> None]
              ELSE [timeout |-> t, left |-> TRUE, slept |-> FALSE,
                    primary |-> ReadTail(m.v, p), dummy |-> Some(m.v)]

\* a variant that runs the clean-up only after a return
Finally_on_success(prim) == IF prim.kind = "return" THEN "delete" ELSE "raised"

\* try: ... finally: the block every exit of the try block runs next
Finally(prim) == "delete"

\* the finally block, given how its _try_with_backoff call ended: what
\* get_author_hacky returns or raises
Cleanup(prim, del) ==
    IF IsValueError(del) THEN prim        \* log.error("failed to clean up")
    ELSE IF del.kind = "raise" THEN del   \* not caught: replaces prim
    ELSE prim                             \* log.info("cleanup success")

\* ------------------------------------------------------------------------
\* A whole call of _try_with_backoff against a scripted server: the loop
\* run over the responses of `script`, in order.

RECURSIVE Run(_, _, _)
Run(u, script, f) ==
    IF script = <<>> THEN Continue
    ELSE LET it == Iteration(f, Head(script), u, Now0, Now0, Now0) IN
         IF it.outcome.kind = "none" THEN Run(u, Tail(script), it.failures)
         ELSE it.outcome

try_with_backoff(u, script) == Run(u, script, 0)

MaxPostId == 2     \* post ids 1..MaxPostId exist on the service

PostIds == 1..MaxPostId
ScratchIds == {MaxPostId + 1}
HandleOf(p) ==
    IF p = 0 THEN "scratchpad"
    ELSE IF p = 1 THEN "alice" ELSE IF p = 2 THEN "bob" ELSE "carol"

Ok(b) == Response(200, NoHeaders, b)
Unavailable == Response(503, NoHeaders, Text(""))
\* the scripts under which a call fails, and the exception it then raises
FailingScripts ==
    { <<Response(404, NoHeaders, Text(""))>>,                \* ValueError
      [i \in 1..(MAX_RETRY + 1) |-> Unavailable],            \* TimeoutError
      <<Response(503, RetryAfter(HintWord), Text(""))>>,     \* TypeError
      <<Response(404, NoHeaders, Json(List(<<>>)))>> }       \* IndexError
\* the scripts of a call whose last response is a 200 with a body of B
Scripts(B) ==
    { <<Ok(b)>> : b \in B } \cup { <<Unavailable, Ok(b)>> : b \in B }
    \cup FailingScripts

Pair(key, val) == [k |-> key, v |-> val]
Batch(data) == List(<<Obj(<<Pair("result", Obj(<<Pair("data", data)>>))>>)>>)
ProjectJson(p) ==
    Obj(<<Pair("projectId", Num(p)), Pair("handle", Str(HandleOf(p)))>>)
PostJson(id, tsop, tree, owner) ==
    Obj(<<Pair("postId", Num(id)), Pair("transparentShareOfPostId", tsop),
          Pair("shareTree", List(tree)), Pair("postingProject", ProjectJson(owner))>>)
ExtendedJson(post) ==
    Batch(Obj(<<Pair("post", post), Pair("comments", Obj(<<>>))>>))
Link(segments) == Obj(<<Pair("href", Href(segments))>>)
LinksJson(links) == Obj(<<Pair("_links", List(links))>>)

SelfLink(p) == Link(<<"", "api", "v1", "project_post", p>>)
PostsLink(h) == Link(<<"", "api", "v1", "project", h, "posts">>)
AuthorLink(h) == Link(<<"", "api", "v1", "project", h>>)

\* /api/v1/project_post/{pid}
ClassicBodies ==
    { Json(LinksJson(<<SelfLink("1"), PostsLink("alice"), AuthorLink("alice")>>)),
      Json(LinksJson(<<SelfLink("1"), PostsLink("alice")>>)),
      Json(LinksJson(<<>>)),
      Json(Obj(<<>>)),
      Text("<html>") }
\* posts.create
CreateBodies ==
    { Json(Batch(Obj(<<Pair("postId", Num(n))>>))) : n \in ScratchIds }
    \cup { Json(Batch(Obj(<<>>))), Json(List(<<>>)), Text("") }
\* posts.singlePost of the scratch post
PollBodies ==
    { Json(ExtendedJson(PostJson(n, Num(t), <<PostJson(t, Null, <<>>, t)>>, 0))) :
        n \in ScratchIds, t \in PostIds }
    \cup { Json(ExtendedJson(PostJson(n, Null, <<>>, 0))) : n \in ScratchIds }
    \cup { Json(Batch(Obj(<<>>))), Json(List(<<>>)), Text("") }
\* posts.delete
DeleteBodies == { OkBody }
\* posts.singlePost of the target post
ExtendedBodies ==
    { Json(ExtendedJson(PostJson(t, Null, <<>>, t))) : t \in PostIds }
    \cup { Json(Batch(Obj(<<>>))), Text("") }

\* ------------------------------------------------------------------------
\* cohost.py: try_post, one action per _try_with_backoff call it makes

Init ==
    /\ pc = "classic" /\ pid \in PostIds /\ classic = Continue /\ timeout = 0
    /\ known_pid = None /\ dummy = None /\ primary = Continue
    /\ cleanup = Continue /\ hacky = Continue /\ author_name = None
    /\ result = Continue
    /\ probes = 0 /\ creates = 0 /\ polls = 0 /\ waits = 0 /\ deletes = 0
    /\ RequestIdle /\ CollapseIdle /\ ParseIdle /\ TagIdle /\ CacheIdle /\ BotIdle

\* author_name = get_author_classic(pid), and the except ValueError clause
Classic ==
    /\ pc = "classic"
    /\ \E script \in Scripts(ClassicBodies) :
         LET fetch == try_with_backoff("project_post", script)
             a == get_author_classic(fetch)
         IN  /\ classic' = fetch
             /\ IF a.kind = "return"
                THEN /\ author_name' = Some(a.v) /\ pc' = "extended"
                     /\ UNCHANGED result
                ELSE IF IsValueError(a)
                THEN pc' = "create" /\ UNCHANGED <<author_name, result>>
                ELSE /\ result' = a /\ pc' = "done" /\ UNCHANGED author_name
    /\ UNCHANGED <<pid, timeout, known_pid, dummy, primary, cleanup, hacky,
                   probes, creates, polls, waits, deletes, requestVars,
                   collapseVars, parseVars, tagVars, cacheVars, botVars>>

\* get_author_hacky up to the try statement: the create request and the
\* reading of its response
Create ==
    /\ pc = "create"
    /\ probes' = probes + 1
    /\ \E script \in Scripts(CreateBodies) :
         LET create == try_with_backoff("posts.create", script) IN
         IF create.kind = "raise"
         THEN /\ hacky' = create /\ result' = create /\ pc' = "done"
              /\ UNCHANGED <<creates, known_pid, timeout>>
         ELSE /\ creates' = creates + 1
              /\ LET k == CreatedPid(create.resp) IN
                 IF k.kind = "raise"
                 THEN /\ hacky' = k /\ result' = k /\ pc' = "done"
                      /\ UNCHANGED <<known_pid, timeout>>
                 ELSE /\ known_pid' = Some(k.v) /\ timeout' = 3 /\ pc' = "poll"
                      /\ UNCHANGED <<hacky, result>>
    /\ UNCHANGED <<pid, classic, dummy, primary, cleanup, author_name, polls,
                   waits, deletes, requestVars, collapseVars,
                   parseVars, tagVars, cacheVars, botVars>>

\* one pass of the polling loop; the pass that leaves the loop runs the rest
\* of the try block and enters the finally block
Poll ==
    /\ pc = "poll"
    /\ polls' = polls + 1
    /\ \E script \in Scripts(PollBodies) :
         LET t == HackyTry(try_with_backoff("posts.singlePost", script), pid, timeout)
         IN  /\ timeout' = t.timeout
             /\ waits' = IF t.slept THEN waits + 1 ELSE waits
             /\ dummy' = t.dummy
             /\ IF ~t.left
                THEN UNCHANGED <<pc, primary, hacky, result>>
                ELSE /\ primary' = t.primary
                     /\ IF Finally(t.primary) = "delete"
                        THEN pc' = "delete" /\ UNCHANGED <<hacky, result>>
                        ELSE /\ hacky' = t.primary /\ result' = t.primary
                             /\ pc' = "done"
    /\ UNCHANGED <<pid, classic, known_pid, cleanup, author_name, probes, creates,
                   deletes, requestVars, collapseVars,
                   parseVars, tagVars, cacheVars, botVars>>

\* the finally block, the end of get_author_hacky and its return to try_post
Delete ==
    /\ pc = "delete"
    /\ deletes' = deletes + 1
    /\ \E script \in Scripts(DeleteBodies) :
         LET del == try_with_backoff("posts.delete", script)
             h == Cleanup(primary, del)
         IN  /\ cleanup' = del
             /\ hacky' = h
             /\ IF h.kind = "return"
                THEN /\ author_name' = Some(h.v) /\ pc' = "extended"
                     /\ UNCHANGED result
                ELSE /\ result' = h /\ pc' = "done" /\ UNCHANGED author_name
    /\ UNCHANGED <<pid, classic, timeout, known_pid, dummy, primary, probes,
                   creates, polls, waits, requestVars, collapseVars,
                   parseVars, tagVars, cacheVars, botVars>>

\* extinfo = _try_with_backoff(custom).json() and the return statement
Extended ==
    /\ pc = "extended"
    /\ \E script \in Scripts(ExtendedBodies) :
         LET fetch == try_with_backoff("posts.singlePost", script)
             j == IF fetch.kind = "raise" THEN fetch ELSE resp_json(fetch.resp)
             d == IF j.kind = "raise" THEN j ELSE ResultData(j.v)
         IN  result' = IF d.kind = "raise" THEN d ELSE ExtendedInfoModel(d.v)
    /\ pc' = "done"
    /\ UNCHANGED <<pid, classic, timeout, known_pid, dummy, primary, cleanup,
                   hacky, author_name, probes, creates, polls, waits, deletes,
                   requestVars, collapseVars,
                   parseVars, tagVars, cacheVars, botVars>>

Next == Classic \/ Create \/ Poll \/ Delete \/ Extended
Spec == Init /\ [][Next]_vars

\* ------------------------------------------------------------------------
\* cohost.py: find_the_original_content

\* index = -1; post_model = tree[index]; while ...: index -= 1; ...
\* a variant that takes the last entry whatever its marker
Scan_unconditional(tree, index) ==
    IF ~InRange(tree, index) THEN Raise("IndexError") ELSE Ret(index)

\* a variant that settles for the oldest entry when no entry is unmarked
RECURSIVE Scan_to_root(_, _)
Scan_to_root(tree, index) ==
    IF ~InRange(tree, index)
    THEN (IF tree = <<>> THEN Raise("IndexError") ELSE Ret(index + 1))
    ELSE IF ~At(tree, index).transparentShareOfPostId.some THEN Ret(index)
    ELSE Scan_to_root(tree, index - 1)

\* the index the loop stops at, or the IndexError of tree[index]
RECURSIVE Scan(_, _)
Scan(tree, index) ==
    IF ~InRange(tree, index) THEN Raise("IndexError")
    ELSE IF ~At(tree, index).transparentShareOfPostId.some THEN Ret(index)
    ELSE Scan(tree, index - 1)

\* the function from `tree = post.post.shareTree` on
Collapse(post) ==
    LET tree == post.post.shareTree
        comments == post.comments
        index == Scan(tree, 0 - 1)
    IN  IF index.kind = "raise" THEN index
        ELSE LET modified == [At(tree, index.v) EXCEPT
                                !.shareTree = SliceTo(tree, index.v + 1)]
             IN  Ret([post |-> modified, comments |-> comments])

\* a variant without the early return
find_always_collapsed(post) == Collapse(post)

find_the_original_content(post) ==
    IF ~post.post.transparentShareOfPostId.some
    THEN Ret(post)       \* No change needed.
    ELSE Collapse(post)

MaxTree == 3       \* longest share tree of an input

\* share-tree entry i: a post of its own (flag FALSE) or a transparent share
Entry(i, transparent) ==
    [postId |-> i,
     transparentShareOfPostId |-> IF transparent THEN Some(i - 1) ELSE None,
     postingProject |-> [projectId |-> i, handle |-> HandleOf(i)],
     shareTree |-> <<>>]
Trees ==
    UNION { { [i \in 1..n |-> Entry(i, f[i])] : f \in [1..n -> BOOLEAN] } :
            n \in 0..MaxTree }
CommentSets == { <<>>, <<Pair("thread", List(<<>>))>> }
ExtendedPosts ==
    { [post |-> [Entry(Len(tree) + 1, transparent) EXCEPT !.shareTree = tree],
       comments |-> c] :
        tree \in Trees, transparent \in BOOLEAN, c \in CommentSets }

InitCollapse ==
    /\ fin \in ExtendedPosts /\ fout = Continue
    /\ RequestIdle /\ TryPostIdle /\ ParseIdle /\ TagIdle /\ CacheIdle /\ BotIdle

FindOriginal ==
    /\ fout.kind = "none"
    /\ fout' = find_the_original_content(fin)
    /\ UNCHANGED <<fin, requestVars, tryPostVars, parseVars, tagVars,
                   cacheVars, botVars>>

NextCollapse == FindOriginal
SpecCollapse == InitCollapse /\ [][NextCollapse]_vars

\* ------------------------------------------------------------------------
\* One call of parse_retry_after, on hints built from their fields.

Digit(n) == CHOOSE c \in Digits : DigitVal(c) = n
D2(n) == <<Digit(n \div 10), Digit(n % 10)>>
D4(n) == D2(n \div 100) \o D2(n % 100)

\* the text "Www, DD Mon YYYY HH:MM:SS GMT" of a date
HttpDate(wd, y, mo, d, hh, mm, ss) ==
    wd \o <<",", " ">> \o D2(d) \o <<" ">> \o _month[mo] \o <<" ">> \o D4(y)
       \o <<" ">> \o D2(hh) \o <<":">> \o D2(mm) \o <<":">> \o D2(ss)
       \o <<" ", "G", "M", "T">>

MaxFailures == 3

DigitHints ==
    { <<"0">>, <<"1">>, <<"0", "0", "7">>, <<"1", "2", "0">>,
      <<"4", "3", "2", "0", "0">>, <<"8", "6", "4", "0", "0">> }
DateFields ==
    { <<2022, 6, 15, 12, 0, 0>>, <<2023, 6, 14, 23, 59, 59>>,
      <<2023, 6, 15, 11, 59, 59>>, <<2023, 6, 15, 12, 0, 0>>,
      <<2023, 6, 15, 12, 0, 1>>, <<2023, 12, 31, 23, 59, 59>>,
      <<2024, 2, 29, 0, 0, 0>>, <<2023, 2, 31, 1, 2, 3>> }
DateHints ==
    { HttpDate(<<"T", "h", "u">>, t[1], t[2], t[3], t[4], t[5], t[6]) :
        t \in DateFields }
ParseHints == DigitHints \cup DateHints \cup {HintWord}
ParseClock == Clock \cup {datetime(2023, 6, 15, 23, 59, 59, 0)}

InitParse ==
    /\ p_retry_str \in ParseHints /\ p_failures \in 0..MaxFailures
    /\ now \in ParseClock /\ parsed_out = Continue
    /\ RequestIdle /\ TryPostIdle /\ CollapseIdle /\ TagIdle /\ CacheIdle /\ BotIdle

\* the call, with the clock standing still while it runs
Parse ==
    /\ parsed_out = Continue
    /\ parsed_out' = parse_retry_after(p_retry_str, p_failures, now, now)
    /\ UNCHANGED <<p_retry_str, p_failures, now, requestVars, tryPostVars,
                   collapseVars, tagVars, cacheVars, botVars>>

NextParse == Parse
SpecParse == InitParse /\ [][NextParse]_vars

\* ------------------------------------------------------------------------
\* cohost.py: _tag_analyze

\* str(n) for n >= 0
RECURSIVE str(_)
str(n) == IF n < 10 THEN <<Digit(n)>> ELSE str(n \div 10) \o <<Digit(n % 10)>>

\* str(l) for a list of strings: "['a', 'b']"
RECURSIVE Joined(_)
Joined(l) ==
    IF l = <<>> THEN <<>>
    ELSE <<"'">> \o Head(l) \o <<"'">>
         \o (IF Len(l) > 1 THEN <<",", " ">> \o Joined(Tail(l)) ELSE <<>>)
str_list(l) == <<"[">> \o Joined(l) \o <<"]">>

\* parse_qs(parsed_url.query).get(key, None): the values given to key, in
\* order, as a list; None when there is none
RECURSIVE ValuesOf(_, _)
ValuesOf(qs, key) ==
    IF qs = <<>> THEN <<>>
    ELSE (IF Head(qs).k = key THEN <<Head(qs).v>> ELSE <<>>)
         \o ValuesOf(Tail(qs), key)
parse_qs_get(qs, key) ==
    IF ValuesOf(qs, key) = <<>> THEN None ELSE Some(ValuesOf(qs, key))

\* the query dict of one pass, with each value as urlencode writes it
Query(off, cursor) ==
    (IF off > 0 THEN <<Pair("skipPosts", str(off))>> ELSE <<>>)
    \o (IF cursor.some THEN <<Pair("refTimestamp", str_list(cursor.v))>>
        ELSE <<>>)

\* the for loop over links_to_tags: the first link with an svg child
FirstSvg(links) ==
    IF \E i \in 1..Len(links) : links[i].svg
    THEN Some(links[CHOOSE i \in 1..Len(links) :
                      links[i].svg /\ \A j \in 1..(i - 1) : ~links[j].svg])
    ELSE None

\* x.attrs["href"].split("/")[-1] over the handle links of the page
PostHandles(page) ==
    [i \in 1..Len(page.handles) |-> At(page.handles[i].split, 0 - 1)]

\* a variant of the first return statement that reports a lower bound
ExactResult_or_more(u, t) ==
    Ret(<<Cardinality(u) >= t,
          str(Cardinality(u)) \o <<" ", "o", "r", " ", "m", "o", "r", "e">>>>)

\* return len(uniques) >= target, str(len(uniques))
ExactResult(u, t) == Ret(<<Cardinality(u) >= t, str(Cardinality(u))>>)

\* return len(uniques) >= target, f"{len(uniques)} or more"
LowerBound(u, t) ==
    Ret(<<Cardinality(u) >= t,
          str(Cardinality(u)) \o <<" ", "o", "r", " ", "m", "o", "r", "e">>>>)

\* a response body that is an HTML page
Html(page) == [json |-> FALSE, soup |-> page]

MaxHandles == 1       \* handle links on one page
MaxTarget == 3
MaxPagesArg == 3

TagLink(qs, svg) == [query |-> qs, svg |-> svg]
Cursor(c) == <<Pair("refTimestamp", c)>>
LinkLists ==
    { <<>>,
      <<TagLink(<<>>, FALSE)>>,
      <<TagLink(<<Pair("skipPosts", <<"2", "0">>)>>, TRUE)>>,
      <<TagLink(Cursor(<<"1", "7">>), TRUE)>>,
      <<TagLink(Cursor(<<"1", "7">>), FALSE), TagLink(Cursor(<<"2", "5">>), TRUE)>> }
HandleHrefs ==
    { Href(<<"https:", "", "cohost.org", "alice">>), Href(<<"", "alice">>),
      Href(<<"https:", "", "cohost.org", "bob">>) }
HandleLists ==
    UNION { [1..n -> HandleHrefs] : n \in 0..MaxHandles }
Pages ==
    { [links_to_tags |-> l, handles |-> h] : l \in LinkLists, h \in HandleLists }
\* the scripts of one page fetch: a 200 with a page, or a failing call
TagScripts == { <<Ok(Html(page))>> : page \in Pages } \cup FailingScripts

InitTag ==
    /\ tag_name \in {"The Cohost Global Feed"}
    /\ target \in 1..MaxTarget /\ max_pages \in 1..MaxPagesArg
    /\ reft = None /\ page_count = 0 /\ uniques = {} /\ offset = 0
    /\ query = <<>> /\ latest = NoPages /\ before = NoPages /\ fetches = 0
    /\ analysis = Continue
    /\ RequestIdle /\ TryPostIdle /\ CollapseIdle /\ ParseIdle /\ CacheIdle /\ BotIdle

\* what the page says about the next one: its next-page link, if any, and
\* the cursor that link names
NextOf(page) ==
    LET the_tag == FirstSvg(page.links_to_tags) IN
    [link |-> the_tag.some,
     cursor |-> IF the_tag.some THEN ValuesOf(the_tag.v.query, "refTimestamp")
                ELSE <<>>]

\* one pass of the while loop, and the return statement after the loop when
\* the pass was the last
Page ==
    /\ analysis = Continue /\ page_count < max_pages
    /\ query' = Query(offset, reft)
    /\ fetches' = fetches + 1
    /\ before' = latest
    /\ \E script \in TagScripts :
         LET fetched == try_with_backoff("rc/tagged", script) IN
         IF fetched.kind = "raise"
         THEN /\ analysis' = fetched
              /\ UNCHANGED <<reft, page_count, uniques, offset, latest>>
         ELSE LET page == fetched.resp.body.soup
                  the_tag == FirstSvg(page.links_to_tags)
                  post_handles == PostHandles(page)
                  u == uniques \cup { post_handles[i] : i \in 1..Len(post_handles) }
              IN  /\ latest' = [seen |-> latest.seen + Len(page.handles),
                                distinct |-> Cardinality(u),
                                link |-> NextOf(page).link,
                                cursor |-> NextOf(page).cursor]
                  /\ reft' = IF the_tag.some
                             THEN parse_qs_get(the_tag.v.query, "refTimestamp")
                             ELSE reft
                  /\ page_count' = page_count + 1
                  /\ uniques' = u
                  /\ IF Len(post_handles) = 0
                     THEN analysis' = ExactResult(u, target) /\ UNCHANGED offset
                     ELSE /\ offset' = offset + Len(post_handles)
                          /\ analysis' = IF page_count + 1 < max_pages THEN Continue
                                         ELSE LowerBound(u, target)
    /\ UNCHANGED <<tag_name, target, max_pages, requestVars, tryPostVars,
                   collapseVars, parseVars, cacheVars, botVars>>

NextTag == Page
SpecTag == InitTag /\ [][NextTag]_vars

\* ------------------------------------------------------------------------
\* functools.cache around _tag_analyze, called from several threads. The
\* wrapper looks the key up and returns what it finds; on a miss it calls
\* the function and then stores the result under the key.

\* how an uncached call can end: the server decides
ScrapeOutcomes ==
    { ExactResult({"alice", "bob", "carol"}, SampleTarget),
      LowerBound({"alice", "bob"}, SampleTarget),
      Raise("TimeoutError") }

InitCache ==
    /\ CacheIdle /\ BotIdle
    /\ RequestIdle /\ TryPostIdle /\ CollapseIdle /\ ParseIdle /\ TagIdle

\* a thread calls tag_analyze(*args): the lookup, and the return on a hit
Call(t) ==
    /\ thr[t].pc = "idle" /\ ncalls < MaxCalls
    /\ ncalls' = ncalls + 1
    /\ \E args \in Keys :
         LET started == [IdleThread EXCEPT !.args = args,
                                          !.after = first[PairOf(args)],
                                          !.read = hit[args]]
         IN  IF cache[args].some
             THEN /\ thr' = [thr EXCEPT ![t] =
                               [started EXCEPT !.pc = "done", !.ret = cache[args].v]]
                  /\ hit' = IF hit[args].some THEN hit
                            ELSE [hit EXCEPT ![args] = cache[args]]
             ELSE /\ thr' = [thr EXCEPT ![t] = [started EXCEPT !.pc = "computing"]]
                  /\ UNCHANGED hit
    /\ UNCHANGED <<cache, first, requestVars, tryPostVars, collapseVars, parseVars,
                   tagVars, botVars>>

\* the function returns or raises; a returned result is stored and returned
Finish(t) ==
    /\ thr[t].pc = "computing"
    /\ \E r \in ScrapeOutcomes, n \in 1..MaxPagesArg :
         /\ thr' = [thr EXCEPT ![t].pc = "done", ![t].ret = r, ![t].fetched = n]
         /\ IF r.kind = "raise" THEN UNCHANGED <<cache, first>>
            ELSE /\ cache' = [cache EXCEPT ![thr[t].args] = Some(r)]
                 /\ first' = IF first[PairOf(thr[t].args)].some THEN first
                              ELSE [first EXCEPT ![PairOf(thr[t].args)] = Some(r)]
    /\ UNCHANGED <<hit, ncalls, requestVars, tryPostVars, collapseVars, parseVars,
                   tagVars, botVars>>

\* the caller goes on, and may call again
Resume(t) ==
    /\ thr[t].pc = "done"
    /\ thr' = [thr EXCEPT ![t] = IdleThread]
    /\ UNCHANGED <<cache, first, hit, ncalls, requestVars, tryPostVars,
                   collapseVars, parseVars, tagVars, botVars>>

NextCache == \E t \in Threads : Call(t) \/ Finish(t) \/ Resume(t)
SpecCache == InitCache /\ [][NextCache]_vars

\* ------------------------------------------------------------------------
\* manager.py: main, run by several processes that share the directory. The
\* file .lock may be left over from an earlier run that was killed.

InitLock ==
    /\ lock \in BOOLEAN /\ creator = 0 /\ m_pc = [p \in Procs |-> "wait"]
    /\ max_duration = [p \in Procs |-> LockWait]
    /\ removed = [p \in Procs |-> 0]
    /\ RequestIdle /\ TryPostIdle /\ CollapseIdle /\ ParseIdle /\ TagIdle
    /\ CacheIdle /\ AskIdle /\ PickIdle

LockUnchanged ==
    UNCHANGED <<requestVars, tryPostVars, collapseVars, parseVars, tagVars,
                cacheVars, askVars, pickVars>>

\* one test of `while os.path.exists(".lock")` and, when the file is there,
\* one pass of the loop body
WaitForLock(p) ==
    /\ m_pc[p] = "wait"
    /\ IF lock
       THEN /\ max_duration' = [max_duration EXCEPT ![p] = @ - 1]
            /\ m_pc' = [m_pc EXCEPT ![p] =
                          IF max_duration[p] - 1 <= 0 THEN "exit" ELSE "wait"]
       ELSE /\ m_pc' = [m_pc EXCEPT ![p] = "login"]
            /\ UNCHANGED max_duration
    /\ UNCHANGED <<lock, creator, removed>>
    /\ LockUnchanged

\* yesno, which, why = am_login(), and exit(1) when not logged in
Login(p) ==
    /\ m_pc[p] = "login"
    /\ \E yesno \in BOOLEAN :
         m_pc' = [m_pc EXCEPT ![p] = IF yesno THEN "open" ELSE "exit"]
    /\ UNCHANGED <<lock, creator, max_duration, removed>>
    /\ LockUnchanged

\* with open(".lock", "w"): creates the file, or truncates the one there
OpenLock(p) ==
    /\ m_pc[p] = "open"
    /\ lock' = TRUE
    /\ creator' = IF lock THEN creator ELSE p
    /\ m_pc' = [m_pc EXCEPT ![p] = "asks"]
    /\ UNCHANGED <<max_duration, removed>>
    /\ LockUnchanged

\* the try block: list_asks and the parse of each ask, ended or raised
Asks(p) ==
    /\ m_pc[p] = "asks"
    /\ m_pc' = [m_pc EXCEPT ![p] = "remove"]
    /\ UNCHANGED <<lock, creator, max_duration, removed>>
    /\ LockUnchanged

\* the finally block: os.remove(".lock"), FileNotFoundError when it is gone
RemoveLock(p) ==
    /\ m_pc[p] = "remove"
    /\ IF lock
       THEN /\ lock' = FALSE
            /\ removed' = [removed EXCEPT ![p] = creator]
            /\ m_pc' = [m_pc EXCEPT ![p] = "done"]
            /\ UNCHANGED creator
       ELSE /\ m_pc' = [m_pc EXCEPT ![p] = "FileNotFoundError"]
            /\ UNCHANGED <<lock, creator, removed>>
    /\ UNCHANGED max_duration
    /\ LockUnchanged

NextLock ==
    \E p \in Procs :
        WaitForLock(p) \/ Login(p) \/ OpenLock(p) \/ Asks(p) \/ RemoveLock(p)
SpecLock == InitLock /\ [][NextLock]_vars

\* ------------------------------------------------------------------------
\* manager.py: parse and op_delete. post_info, delete and ask_reject are
\* imported from cohost; a call of post_info gives nothing, a post or an
\* exception, and a call of delete is the delete request.

BOT_OP == {188410, 217741}

\* a variant that approves whoever asks
Approved_anyone(request_author, immediate_author, root_author) == TRUE

\* the condition of the if statement of op_delete
Approved(request_author, immediate_author, root_author) ==
    \/ request_author = immediate_author
    \/ request_author = root_author
    \/ request_author \in BOT_OP

\* op_delete(target, context), given what post_info(target, POST_TO) gave
\* (fetched) and how delete(target, POST_TO) would end (del). The share
\* tree is the sequence of the projectIds of its entries.
op_delete(request_author, fetched, del) ==
    IF fetched.kind = "raise" THEN [deleted |-> FALSE, out |-> fetched]
    ELSE IF ~fetched.v.some THEN [deleted |-> FALSE, out |-> Ret(None)]
    ELSE LET shareTree == fetched.v.v IN
         IF ~InRange(shareTree, 0 - 1)
         THEN [deleted |-> FALSE, out |-> Raise("IndexError")]
         ELSE IF Approved(request_author, At(shareTree, 0 - 1), At(shareTree, 0))
         THEN [deleted |-> TRUE, out |-> del]
         ELSE [deleted |-> FALSE, out |-> Ret(None)]

MaxInstr == 2          \* lines in the block of one ask
MaxProject == 2        \* projects 1..MaxProject, besides the bot operators
MaxOwners == 2         \* entries of a share tree

Askers == (1..MaxProject) \cup BOT_OP
Instr(op, n) == [match |-> TRUE, op |-> op, target |-> n]
NoMatch == [match |-> FALSE, op |-> "", target |-> 0]
Instrs ==
    {Instr("delete", 1), Instr("delete", 2), Instr("suppress", 1), NoMatch}
Blocks == UNION { [1..n -> Instrs] : n \in 0..MaxInstr }
\* what post_info can give for a target
Found ==
    { Ret(None), Raise("ValueError"), Raise("TimeoutError") }
    \cup { Ret(Some(tree)) :
             tree \in UNION { [1..n -> 1..MaxProject] : n \in 0..MaxOwners } }
DeleteEnds == { Ret(None), Raise("ValueError") }

InitAsk ==
    /\ asker \in Askers
    /\ instructions \in {None} \cup { Some(b) : b \in Blocks }
    /\ ip = 0 /\ op_call = NoCall /\ ndeletes = 0 /\ rejected = FALSE
    /\ parse_out = Continue
    /\ RequestIdle /\ TryPostIdle /\ CollapseIdle /\ ParseIdle /\ TagIdle
    /\ CacheIdle /\ LockIdle /\ PickIdle

AskUnchanged ==
    UNCHANGED <<requestVars, tryPostVars, collapseVars, parseVars, tagVars,
                cacheVars, lockVars, pickVars>>

\* parse of a content without a block, or with a block without lines
NoInstruction ==
    /\ parse_out = Continue
    /\ \/ ~instructions.some
       \/ instructions.some /\ instructions.v = <<>>
    /\ rejected' = instructions.some
    /\ parse_out' = Ret(None)
    /\ UNCHANGED <<asker, instructions, ip, op_call, ndeletes>>
    /\ AskUnchanged

\* one pass of the for loop; after the last line, ask_reject and the return
Instruction ==
    /\ parse_out = Continue /\ instructions.some /\ ip < Len(instructions.v)
    /\ ip' = ip + 1
    /\ LET instruct == instructions.v[ip + 1]
           last == ip + 1 = Len(instructions.v)
       IN  IF ~instruct.match \/ instruct.op # "delete"
           THEN /\ rejected' = last
                /\ parse_out' = IF last THEN Ret(None) ELSE Continue
                /\ UNCHANGED <<op_call, ndeletes>>
           ELSE \E fetched \in Found, del \in DeleteEnds :
                  LET r == op_delete(asker, fetched, del)
                      caught == r.out.kind = "raise"
                                /\ r.out.exc \in {"ValueError", "KeyError"}
                      escapes == r.out.kind = "raise" /\ ~caught
                  IN  /\ op_call' = [target |-> instruct.target, post |-> fetched,
                                     deleted |-> r.deleted]
                      /\ ndeletes' = IF r.deleted THEN ndeletes + 1 ELSE ndeletes
                      /\ rejected' = (last /\ ~escapes)
                      /\ parse_out' = IF escapes THEN r.out
                                      ELSE IF last THEN Ret(None) ELSE Continue
    /\ UNCHANGED <<asker, instructions>>
    /\ AskUnchanged

NextAsk == NoInstruction \/ Instruction
SpecAsk == InitAsk /\ [][NextAsk]_vars

\* ------------------------------------------------------------------------
\* randomizer.py: main, from `ban_list = set()` to the share call. The calls
\* of cohost.try_post and cohost.tag_analyze end in any of the ways they can.

\* a variant that keeps every tag of the share
effective_tags_of_share(topmost, share) == { share.tags[i] : i \in DOMAIN share.tags }

effective_tags(topmost, share) ==
    IF topmost.postingProject.projectId = share.postingProject.projectId
    THEN { share.tags[i] : i \in DOMAIN share.tags }
         \* you can always share your own post.
    ELSE { topmost.tags[i] : i \in DOMAIN topmost.tags }
            \cap { share.tags[i] : i \in DOMAIN share.tags }

MaxAttempts == 50     \* max_att = 50
TalkLength == 50      \* len(tag) > 50
RobotFace == "robot"  \* the one character U+1F916
BotSuffix == <<"-", "b", "o", "t">>

\* ch in s, for a str s
Contains(s, ch) == \E i \in DOMAIN s : s[i] = ch
\* s.endswith(suffix)
EndsWith(s, suffix) ==
    /\ Len(s) >= Len(suffix)
    /\ \A i \in DOMAIN suffix : s[Len(s) - Len(suffix) + i] = suffix[i]

\* `'<robot face>' in displayName or handle.endswith('-bot')`: a displayName
\* of None makes the `in` raise TypeError
IsBot(project) ==
    IF ~project.displayName.some THEN Raise("TypeError")
    ELSE Ret(\/ Contains(project.displayName.v, RobotFace)
             \/ EndsWith(project.handle, BotSuffix))

\* `handle in ban_list`: the set holds the ints added at line 58, and a str
\* equals no int
HandleBanned(handle, bans) == FALSE

\* the loop `for tag in eft`, from position i on, when tag_analyze(tag, 3)
\* gives target-met true for the tags of `met` and raises exc for those of
\* `failing`: the tag it binds verify_with to, nothing, or the exception
RECURSIVE UsageCheck(_, _, _, _, _)
UsageCheck(tags, i, met, failing, exc) ==
    IF i > Len(tags) THEN Ret(None)
    ELSE IF Len(tags[i]) > TalkLength     \* Probably talking in tags.
         THEN UsageCheck(tags, i + 1, met, failing, exc)
    ELSE IF tags[i] \in failing THEN Raise(exc)
    ELSE IF tags[i] \in met THEN Ret(Some(tags[i]))
    ELSE UsageCheck(tags, i + 1, met, failing, exc)

\* the orders in which list(a_set) can list a set
ListsOf(S) ==
    { order \in [1..Cardinality(S) -> S] :
        \A i, j \in DOMAIN order : order[i] = order[j] => i = j }

\* how one pass of the try block ends for the post that try_post returned:
\* `continue`, `break` or an exception that the `except ValueError` does not
\* catch, with the values it assigns to eft and verify_with (None: none).
\* listing is what list(effective_tags(...)) gives when it is called
Pass(kind, e, w) == [kind |-> kind, eft |-> e, verify_with |-> w]
Consider(info, listing, met, failing, exc) ==
    LET oc == find_the_original_content(info)
        bot == IsBot(info.post.postingProject)
        tags == IF info.post.shareTree # <<>> THEN listing ELSE info.post.tags
        usage == UsageCheck(tags, 1, met, failing, exc)
    IN  IF oc.kind = "raise" THEN Pass(oc.exc, None, None)
        ELSE IF oc.v.post.postId # info.post.postId
             THEN Pass("continue", None, None)       \* not additive
        ELSE IF info.post.effectiveAdultContent
             THEN Pass("continue", None, None)
        ELSE IF HandleBanned(info.post.postingProject.handle, ban_list)
             THEN Pass("continue", None, None)
        ELSE IF ~info.post.canShare THEN Pass("continue", None, None)
        ELSE IF bot.kind = "raise" THEN Pass(bot.exc, None, None)
        ELSE IF bot.v THEN Pass("continue", None, None)
        ELSE IF info.post.tags = <<>> THEN Pass("continue", None, None)
        ELSE IF info.post.shareTree # <<>> /\ tags = <<>>
             THEN Pass("continue", Some(tags), None)  \* no effective tags
        ELSE IF usage.kind = "raise"
             THEN Pass(IF usage.exc = "ValueError" THEN "continue"
                       ELSE usage.exc, Some(tags), None)
        ELSE IF ~usage.v.some THEN Pass("continue", Some(tags), None)
        ELSE Pass("break", Some(tags), usage.v)

\* the tags that the loop `for tag in eft` of the pass can get to
Analysed(info, listing) ==
    LET dry == Consider(info, listing, {}, {}, "ValueError")
    IN  IF dry.eft.some THEN { dry.eft.v[i] : i \in DOMAIN dry.eft.v } ELSE {}

\* ---- the posts that try_post can return
Art == <<"a", "r", "t">>
Cat == <<"c", "a", "t">>
Talk == [i \in 1..(TalkLength + 1) |-> "z"]
PickTags == {Art, Cat, Talk}
Project(id, handle, displayName) ==
    [projectId |-> id, handle |-> handle, displayName |-> displayName]
Alice == Project(1, <<"a", "l", "i", "c", "e">>, Some(<<"A">>))
Bob == Project(2, <<"b", "o", "b">>, Some(<<"B">>))
Authors ==
    { Alice, Bob,
      Project(2, <<"b", "o", "b">>, Some(<<"B", RobotFace>>)),
      Project(2, <<"r", "-", "b", "o", "t">>, Some(<<"R">>)),
      Project(1, <<"a", "l", "i", "c", "e">>, None) }
\* an entry of a share tree: the post of `owner` that is shared
Root(owner, tags) ==
    [postId |-> 0, transparentShareOfPostId |-> None,
     postingProject |-> Project(owner, <<"o">>, Some(<<"O">>)),
     shareTree |-> <<>>, effectiveAdultContent |-> FALSE, canShare |-> TRUE,
     tags |-> tags]
\* (transparentShareOfPostId, shareTree, tags) of a post
Shape(tsop, tree, tags) == [tsop |-> tsop, tree |-> tree, tags |-> tags]
Shapes ==
    { Shape(None, <<>>, <<>>),
      Shape(None, <<>>, <<Cat, Art>>),
      Shape(None, <<>>, <<Talk>>),
      Shape(None, <<Root(1, <<Art>>)>>, <<Cat, Art>>),
      Shape(None, <<Root(2, <<Art>>)>>, <<Cat>>),
      Shape(Some(0), <<Root(1, <<Art>>)>>, <<Art>>),
      Shape(Some(0), <<>>, <<Art>>) }
\* (effectiveAdultContent, canShare) of a post
Flags == { <<FALSE, TRUE>>, <<TRUE, TRUE>>, <<FALSE, FALSE>> }
Info(id, sh, by, fl) ==
    [post |-> [postId |-> id,
               transparentShareOfPostId |-> sh.tsop,
               postingProject |-> by,
               shareTree |-> sh.tree,
               effectiveAdultContent |-> fl[1],
               canShare |-> fl[2],
               tags |-> sh.tags],
     comments |-> <<>>]
\* every shape by alice, a share of alice's post by bob, and a post of its
\* own by every author and under every pair of flags
Candidates(id) ==
    { Info(id, sh, Alice, <<FALSE, TRUE>>) : sh \in Shapes }
        \cup { Info(id, Shape(None, <<Root(1, <<Art>>)>>, <<Cat, Art>>), Bob,
                    <<FALSE, TRUE>>) }
        \cup { Info(id, Shape(None, <<>>, <<Cat, Art>>), by, <<FALSE, TRUE>>) :
                 by \in Authors }
        \cup { Info(id, Shape(None, <<>>, <<Cat, Art>>), Alice, fl) :
                 fl \in Flags }
TryPostEnds(id) ==
    { Ret(c) : c \in Candidates(id) }
        \cup { Raise("ValueError"), Raise("TimeoutError") }

InitPick ==
    /\ r_pc = "loop"
    /\ r_latest = MaxPostId /\ r_last \in 1..r_latest
    /\ ban_list = {} /\ post_info = None /\ max_att = MaxAttempts
    /\ eft = <<>> /\ verify_with = None
    /\ tried = [i \in PostIds |-> 0] /\ passed = {} /\ shared = <<>>
    /\ RequestIdle /\ TryPostIdle /\ CollapseIdle /\ ParseIdle /\ TagIdle
    /\ CacheIdle /\ LockIdle /\ AskIdle

PickUnchanged ==
    UNCHANGED <<requestVars, tryPostVars, collapseVars, parseVars, tagVars,
                cacheVars, lockVars, askVars>>

\* a pass of the loop that finds max_att used up
OutOfAttempts ==
    /\ r_pc = "loop" /\ max_att <= 0
    /\ r_pc' = "exit"
    /\ UNCHANGED <<r_last, r_latest, ban_list, max_att, post_info, eft,
                   verify_with, tried, passed, shared>>
    /\ PickUnchanged

\* a pass whose pick is in ban_list
Repeat ==
    /\ r_pc = "loop" /\ max_att > 0
    /\ \E choiced \in r_last..r_latest : choiced \in ban_list
    /\ max_att' = max_att - 1
    /\ UNCHANGED <<r_pc, r_last, r_latest, ban_list, post_info, eft,
                   verify_with, tried, passed, shared>>
    /\ PickUnchanged

\* a pass whose pick is new
Try ==
    /\ r_pc = "loop" /\ max_att > 0
    /\ \E choiced \in (r_last..r_latest) \ ban_list :
        /\ ban_list' = ban_list \cup {choiced}
        /\ tried' = [tried EXCEPT ![choiced] = @ + 1]
        /\ \E fetched \in TryPostEnds(choiced) :
            IF fetched.kind = "raise"
            THEN /\ r_pc' = IF fetched.exc = "ValueError" THEN "loop"
                            ELSE fetched.exc
                 /\ UNCHANGED <<post_info, eft, verify_with, passed>>
            ELSE \E listing \in
                     IF fetched.v.post.shareTree = <<>> THEN {<<>>}
                     ELSE ListsOf(effective_tags(fetched.v.post.shareTree[1],
                                                 fetched.v.post)) :
                 LET asked == Analysed(fetched.v, listing)
                 IN  \E met \in SUBSET asked :
                     \E failing \in {{}} \cup { {tag} : tag \in asked \ met } :
                     \E exc \in IF failing = {} THEN {"ValueError"}
                                ELSE {"ValueError", "TimeoutError"} :
                     LET end == Consider(fetched.v, listing, met, failing, exc)
                     IN  /\ post_info' = Some(fetched.v)
                         /\ eft' = IF end.eft.some THEN end.eft.v ELSE eft
                         /\ verify_with' = IF end.verify_with.some
                                           THEN end.verify_with
                                           ELSE verify_with
                         /\ passed' = met
                         /\ r_pc' = IF end.kind = "continue" THEN "loop"
                                    ELSE IF end.kind = "break" THEN "picked"
                                    ELSE end.kind
    /\ UNCHANGED <<r_last, r_latest, max_att, shared>>
    /\ PickUnchanged

\* from the assert to the share call: rendering the template divides by
\* latest - last
ShareIt ==
    /\ r_pc = "picked"
    /\ IF ~post_info.some THEN r_pc' = "AssertionError" /\ UNCHANGED shared
       ELSE IF r_latest - r_last = 0
            THEN r_pc' = "ZeroDivisionError" /\ UNCHANGED shared
       ELSE /\ r_pc' = "shared"
            /\ shared' = Append(shared, post_info.v.post.postId)
    /\ UNCHANGED <<r_last, r_latest, ban_list, max_att, post_info, eft,
                   verify_with, tried, passed>>
    /\ PickUnchanged

NextPick == OutOfAttempts \/ Repeat \/ Try \/ ShareIt
SpecPick == InitPick /\ [][NextPick]_vars

\* ========================================================================
\* Properties

\* every response of the call so far was retryable
AllRetryable == requests >= 1 /\ failures = requests

\* C1: when every response is retryable (418 or 500..599), the call makes
\* exactly 11 requests, raises the retry-exhaustion error carrying the
\* failure count on the 11th failure and never makes a 12th request.
C1_RetryExhaustion ==
    AllRetryable =>
        /\ requests <= 11
        /\ outcome.kind # "return"
        /\ outcome.kind = "raise" => requests = 11 /\ outcome = RaiseTimeout(11)
        /\ requests = 11 => outcome = RaiseTimeout(11)

\* C2: k retryable responses without a retry-after header (k in 0..10) and
\* then a 200: the call sleeps k times, the i-th sleep lasting 2^i seconds,
\* makes k + 1 requests and returns the 200 response.
C2_BackoffSchedule ==
    hinted = 0 =>
        /\ Len(sleeps) <= 10
        /\ \A i \in 1..Len(sleeps) : sleeps[i] = 2 ^ i
        /\ outcome.kind = "return" =>
              /\ failures \in 0..10
              /\ Len(sleeps) = failures
              /\ requests = failures + 1
              /\ resp.status_code = 200 /\ outcome.resp = resp

C2_Witness ==
    outcome.kind = "return" /\ hinted = 0 /\ failures = 10 /\ Len(sleeps) = 10

\* a retry-after value that is neither all digits nor a well-formed HTTP date
Malformed(h) ==
    /\ ~AllNumbers(h)
    /\ ~(DateMatch(h) /\ Strptime_ok(int(SubSeq(h, 13, 16)), MonthOf(h),
                                    int(SubSeq(h, 6, 7)), int(SubSeq(h, 18, 19)),
                                    int(SubSeq(h, 21, 22)), int(SubSeq(h, 24, 25))))

MalformedHint(r) ==
    /\ Retryable(r.status_code)
    /\ Has(r.headers, "retry-after") /\ Malformed(Get(r.headers, "retry-after"))

\* C3: a retryable response whose retry-after header is neither all digits
\* nor a well-formed HTTP date surfaces no error: the call sleeps
\* backoff(failures) seconds and goes on to the next attempt.
C3_MalformedHintFallsBack ==
    (requests >= 1 /\ MalformedHint(resp) /\ failures <= MAX_RETRY) =>
        /\ outcome.kind = "none"
        /\ Len(sleeps) >= 1 /\ sleeps[Len(sleeps)] = 2 ^ failures

\* C4: a response whose status is not 200, not 418 and not in 500..599 ends
\* the call at once with the status-code error that embeds the URL and the
\* status, for every shape of the response body, with no sleep.
C4_StatusError ==
    (requests >= 1 /\ resp.status_code # 200 /\ ~Retryable(resp.status_code)) =>
        /\ outcome = RaiseStatus(resp.status_code, url)
        /\ Len(sleeps) = failures

\* the classic document was fetched and read, and holds no project link
\* other than the post-listing link
NoAuthorLink ==
    /\ classic.kind = "return" /\ classic.resp.body.json
    /\ LET links == Item(classic.resp.body.js, "_links") IN
       links.kind = "return" /\ links.v.t = "list" /\ Filter(links.v.l) = <<>>

\* C5: when the classic document is fetched but holds no project-reference
\* link other than the post-listing link, try_post invokes get_author_hacky
\* exactly once and its outcome is the outcome of author resolution.
C5_ProbeOnce ==
    (NoAuthorLink /\ pc = "done") =>
        /\ probes = 1
        /\ hacky.kind = "return" => author_name = Some(hacky.v)
        /\ hacky.kind = "raise" => result = hacky

\* the fetch of the classic document failed: a status error, or the
\* retries ran out
ClassicFetchFailed ==
    /\ classic.kind = "raise"
    /\ \/ classic.exc = "TimeoutError"
       \/ classic.exc = "ValueError" /\ "status" \in DOMAIN classic

\* C6: when the fetch of the classic document fails, by a status error or
\* by retry exhaustion, try_post falls back to get_author_hacky instead of
\* propagating the failure.
C6_FetchFailureFallsBack ==
    (ClassicFetchFailed /\ pc = "done") => probes = 1

HackyEnded == hacky.kind # "none"

\* C7, as claimed: once the create request has succeeded, exactly one delete
\* operation is started before get_author_hacky returns or raises, on every
\* exit path, a malformed create response included.
C7_DeleteAfterCreate ==
    (HackyEnded /\ creates = 1) => deletes = 1

\* C7, amended: once the create request has succeeded and the scratch post's
\* id has been read from its response, exactly one delete operation is
\* started before get_author_hacky returns or raises, on every exit path;
\* no delete is started before the try block ends, nor when the id could not
\* be read.
C7_DeleteOnce ==
    /\ deletes <= 1
    /\ deletes = 1 => known_pid.some /\ primary.kind # "none"
    /\ HackyEnded => (deletes = 1 <=> known_pid.some)

C7_Witness ==
    /\ HackyEnded /\ known_pid.some /\ deletes = 1
    /\ primary.kind = "raise" /\ primary.exc = "TimeoutError"

\* the delete request failed: a status error, or the retries ran out
CleanupFailed ==
    /\ cleanup.kind = "raise"
    /\ \/ cleanup.exc = "TimeoutError"
       \/ cleanup.exc = "ValueError" /\ "status" \in DOMAIN cleanup

\* C8: a failure of the delete request of any kind (status error or retry
\* exhaustion) is only logged: get_author_hacky still returns the handle it
\* resolved, or raises the primary error it had.
C8_CleanupNeverEscalates ==
    (HackyEnded /\ deletes = 1 /\ CleanupFailed) => hacky = primary

\* the last entry of the scratch post's share tree, when there is one
HasTail == dummy.some /\ InRange(dummy.v.post.shareTree, 0 - 1)
TailOf == At(dummy.v.post.shareTree, 0 - 1)

\* C9: get_author_hacky returns a handle only when the last entry of the
\* scratch post's share tree has postId = pid; when it differs the call
\* raises and returns no handle, and try_post propagates that error and
\* takes no author.
C9_NoGuessedAuthor ==
    /\ hacky.kind = "return" =>
          /\ HasTail /\ TailOf.postId = pid
          /\ hacky.v = TailOf.postingProject.handle
    /\ (HasTail /\ TailOf.postId # pid) =>
          /\ primary = RaiseMsg("ValueError", "mismatch")
          /\ hacky.kind # "return"
          /\ author_name = None
          /\ pc = "done" => hacky.kind = "raise" /\ result = hacky

C9_Witness ==
    /\ pc = "done" /\ HasTail /\ TailOf.postId # pid
    /\ result = RaiseMsg("ValueError", "mismatch")

\* C10: find_the_original_content returns its input unchanged (same post,
\* same share tree, same comments) whenever the input post's
\* transparentShareOfPostId is unset, whatever its share tree contains.
C10_Unchanged ==
    (fout.kind # "none" /\ ~fin.post.transparentShareOfPostId.some) =>
        fout = Ret(fin)

C10_Witness ==
    /\ fout.kind = "return" /\ ~fin.post.transparentShareOfPostId.some
    /\ Len(fin.post.shareTree) = 2
    /\ fin.post.shareTree[2].transparentShareOfPostId.some
    /\ fin.comments # <<>>

\* the input is a transparent share
Transparent == fin.post.transparentShareOfPostId.some
\* the positions (1-based, oldest first) of the share-tree entries of the
\* input that are not transparent shares
Originals ==
    { i \in 1..Len(fin.post.shareTree) :
        ~fin.post.shareTree[i].transparentShareOfPostId.some }
\* the most recent of them
LastOriginal == CHOOSE i \in Originals : \A j \in Originals : j <= i

\* C11: for an input that is a transparent share and whose share tree holds
\* an entry with transparentShareOfPostId unset, the result's post is the
\* most recent such entry and its comments are exactly the input's.
C11_MostRecentOriginal ==
    (fout.kind # "none" /\ Transparent /\ Originals # {}) =>
        /\ fout.kind = "return"
        /\ LET e == fin.post.shareTree[LastOriginal] IN
           /\ fout.v.post.postId = e.postId
           /\ fout.v.post.postingProject = e.postingProject
           /\ fout.v.post.transparentShareOfPostId = e.transparentShareOfPostId
        /\ fout.v.comments = fin.comments

C11_Witness ==
    /\ fout.kind = "return" /\ Transparent /\ Originals = {1, 2}
    /\ Len(fin.post.shareTree) = 3 /\ fin.comments # <<>>
    /\ fout.v.post.postId = 2

\* C12: when the result is the share-tree entry at position p (0-based,
\* oldest first), its share tree is exactly the input's entries 0..p-1, so
\* it never holds the returned post itself; [A, B(transparent),
\* C(transparent)] gives A with an empty share tree.
C12_TruncatedTree ==
    (fout.kind = "return" /\ Transparent) =>
        fout.v.post.shareTree = SubSeq(fin.post.shareTree, 1, LastOriginal - 1)

\* C13: when the input is a transparent share and every entry of its share
\* tree is one too (an empty share tree included), the call raises and
\* returns no post.
C13_NoOriginalRaises ==
    (fout.kind # "none" /\ Transparent /\ Originals = {}) => fout.kind = "raise"

C13_Witness ==
    /\ fout.kind = "raise" /\ Transparent /\ Originals = {}
    /\ Len(fin.post.shareTree) = 2

\* the polling loop ended by running out of budget
BudgetExhausted ==
    primary = RaiseMsg("ValueError", "never got post info for dummy share")

\* C19: the polling loop of get_author_hacky makes at most 3 fetches. Every
\* pass that stays in the loop is a failed fetch that took one unit of the
\* budget and slept once; the third failure raises with no further sleep or
\* fetch; a pass whose fetch succeeds (or fails in another way) leaves the
\* loop without touching the budget and without sleeping. So the loop ends
\* after at most 3 passes.
C19_BoundedPolling ==
    /\ polls <= 3 /\ waits <= 2
    /\ (pc = "poll" => polls <= 2 /\ waits = polls /\ timeout = 3 - polls)
    /\ (polls > 0 /\ pc # "poll") =>
          IF BudgetExhausted
          THEN polls = 3 /\ waits = 2 /\ timeout = 0
          ELSE /\ primary.kind # "none"
               /\ waits = polls - 1 /\ timeout = 3 - waits

C19_Witness == BudgetExhausted /\ polls = 3 /\ waits = 2 /\ pc = "delete"

\* the text of the date with fields t
DateText(t) == HttpDate(<<"T", "h", "u">>, t[1], t[2], t[3], t[4], t[5], t[6])
\* the hint is the text of a date that exists
WellFormedDate ==
    /\ DateMatch(p_retry_str)
    /\ \E t \in DateFields :
         /\ p_retry_str = DateText(t)
         /\ Strptime_ok(t[1], t[2], t[3], t[4], t[5], t[6])
\* the date the hint names
HintDate ==
    LET t == CHOOSE t \in DateFields : p_retry_str = DateText(t)
    IN  datetime(t[1], t[2], t[3], t[4], t[5], t[6], 0)
\* a timedelta as a number of seconds
TotalSeconds(td) == td.days * 86400 + td.seconds

\* C18: with the clock reading `now` throughout the call, a hint of digits
\* with value n gives now + n seconds whatever the failure count; a hint
\* that is the text of an existing date d gives now + backoff(failures) when
\* d is earlier than now and d + 1 second when d is later than now.
C18_ParseRetryAfter ==
    parsed_out # Continue =>
        /\ AllNumbers(p_retry_str) =>
              /\ parsed_out.kind = "datetime"
              /\ TotalSeconds(DtMinus(parsed_out.v, now)) = int(p_retry_str)
              /\ DtMinus(parsed_out.v, now).microseconds = 0
        /\ (WellFormedDate /\ DtLess(HintDate, now)) =>
              /\ parsed_out.kind = "datetime"
              /\ TotalSeconds(DtMinus(parsed_out.v, now))
                    = backoff_base ^ p_failures + minimum
              /\ DtMinus(parsed_out.v, now).microseconds = 0
        /\ (WellFormedDate /\ DtLess(now, HintDate)) =>
              /\ parsed_out.kind = "datetime"
              /\ TotalSeconds(DtMinus(parsed_out.v, HintDate)) = 1
              /\ DtMinus(parsed_out.v, HintDate).microseconds = 0

C18_Witness ==
    /\ parsed_out # Continue /\ WellFormedDate /\ DtLess(now, HintDate)
    /\ HintDate = datetime(2023, 12, 31, 23, 59, 59, 0)
    /\ parsed_out.v = datetime(2024, 1, 1, 0, 0, 0, 0)

\* U: the distinct handles seen on the pages fetched
U == Cardinality(uniques)
\* the latest request was answered by a page, and that page had no handle link
ZeroYield == fetches >= 1 /\ analysis.kind # "raise" /\ latest.seen = before.seen
\* " or more"
OrMore == <<" ", "o", "r", " ", "m", "o", "r", "e">>

\* C14: when a page yields zero handles (the page budget not exceeded), the
\* call stops there and returns (U >= target, the decimal string of U).
C14_ZeroYieldReturnsExact ==
    ZeroYield =>
        /\ analysis = Ret(<<U >= target, str(U)>>)
        /\ page_count <= max_pages /\ fetches = page_count

C14_Witness ==
    /\ ZeroYield /\ fetches = 3 /\ U = 2 /\ target = 2
    /\ analysis = Ret(<<TRUE, <<"2">>>>)

\* C15: when max_pages pages have been fetched and none of them yielded zero
\* handles, the call returns (U >= target, s), s being the decimal string of
\* U if U >= target and "U or more" if U < target.
C15_BudgetExhausted ==
    (analysis.kind # "raise" /\ page_count = max_pages /\ ~ZeroYield) =>
        analysis = Ret(<<U >= target,
                         IF U >= target THEN str(U) ELSE str(U) \o OrMore>>)

\* C20: the first page request carries neither skipPosts nor refTimestamp;
\* every later one carries skipPosts = the number of handle links seen on
\* all pages fetched before it and, as refTimestamp, the cursor named by the
\* next-page link of the page fetched just before it.
C20_Continuation ==
    /\ fetches = 1 => query = <<>>
    /\ fetches > 1 =>
          /\ Has(query, "skipPosts")
          /\ Get(query, "skipPosts") = str(before.seen)
          /\ (before.link /\ Len(before.cursor) = 1) =>
                /\ Has(query, "refTimestamp")
                /\ Get(query, "refTimestamp") = before.cursor[1]

\* C16: the cache key is the pair (tag, target): once a call for a pair has
\* returned, every call for that pair made later returns the same result
\* and fetches no page, and what the cache holds for the pair is never
\* replaced.
C16_Memoized ==
    /\ \A t \in Threads :
         (thr[t].pc = "done" /\ thr[t].after.some) =>
             thr[t].ret = thr[t].after.v /\ thr[t].fetched = 0
    /\ \A k \in Keys :
         (first[PairOf(k)].some /\ cache[k].some) => cache[k] = first[PairOf(k)]

\* C17: when threads race to compute the same uncached key, the first
\* result written wins: once a caller has read a result for the key from
\* the cache, every later call returns that result and no computation that
\* finishes later overwrites it.
C17_FirstWriterWins ==
    /\ \A t \in Threads :
         (thr[t].pc = "done" /\ thr[t].read.some) => thr[t].ret = thr[t].read.v
    /\ \A k \in Keys : hit[k].some => cache[k] = hit[k]

\* C21: when a fetched page has no next-page link, the listing is taken as
\* ended: no page request follows that page.
C21_NoLinkEndsListing == fetches > 1 => before.link

\* C22: pagination stops as soon as the count of distinct handles reaches
\* the target: no page is requested after the page on which the count first
\* became >= target.
C22_StopsAtTarget == fetches > 1 => before.distinct < target

\* the process is between creating .lock and removing it
Holding(p) == m_pc[p] \in {"asks", "remove"}

\* C23: .lock gives mutual exclusion between manager processes: at most one
\* process at a time is between creating .lock and removing it, and no
\* process removes a .lock that another process created.
C23_LockExcludes ==
    /\ \A p, q \in Procs : (Holding(p) /\ Holding(q)) => p = q
    /\ \A p \in Procs : removed[p] \in {0, p} \/ m_pc[p] # "done"

\* the post the latest op_delete call found: its share tree, when it exists
FoundTree ==
    IF op_call.post.kind = "return" /\ op_call.post.v.some
    THEN Some(op_call.post.v.v) ELSE None

\* C24: op_delete issues the delete request only when the asking project's
\* id is the posting project id of the last share-tree entry, or of the
\* first one, or is in BOT_OP; for any other requester, and when the target
\* post does not exist, it issues none.
C24_DeleteAuthorized ==
    /\ op_call.deleted =>
          /\ FoundTree.some /\ FoundTree.v # <<>>
          /\ \/ asker = FoundTree.v[Len(FoundTree.v)]
             \/ asker = FoundTree.v[1]
             \/ asker \in BOT_OP
    /\ ndeletes > 0 => \E i \in 1..ip : instructions.v[i].op = "delete"
    /\ ndeletes <= ip

C24_Witness ==
    /\ op_call.deleted /\ asker \notin BOT_OP /\ Len(FoundTree.v) = 2
    /\ asker = FoundTree.v[1] /\ asker # FoundTree.v[2] /\ ndeletes = 2

\* main is past the loop: it left it through the `break`
LeftLoop ==
    r_pc \in {"picked", "shared", "AssertionError", "ZeroDivisionError"}
\* tag t of the post is one of its effective tags: any tag when the post is
\* no share or shares a post of its own project, else a tag that the topmost
\* post of its share tree has too
EffectiveTag(it, t) ==
    /\ \E i \in DOMAIN it.tags : it.tags[i] = t
    /\ \/ it.shareTree = <<>>
       \/ it.shareTree[1].postingProject.projectId = it.postingProject.projectId
       \/ \E i \in DOMAIN it.shareTree[1].tags : it.shareTree[1].tags[i] = t
Eligible(info) ==
    /\ find_the_original_content(info).kind = "return"
    /\ find_the_original_content(info).v.post.postId = info.post.postId
    /\ ~info.post.effectiveAdultContent
    /\ info.post.canShare
    /\ info.post.tags # <<>>
    /\ \E t \in passed : EffectiveTag(info.post, t) /\ Len(t) <= TalkLength

\* C25: the selection loop of randomizer.main calls try_post with each post
\* id at most once per run; the post it leaves the loop with is one that
\* find_the_original_content returns with the same post id, is not adult
\* content, can be shared, has tags, and has an effective tag of at most 50
\* characters for which tag_analyze(tag, 3) gave target-met true; the share
\* call is only ever made with that post.
C25_SelectedPostEligible ==
    /\ \A i \in DOMAIN tried : tried[i] <= 1
    /\ LeftLoop => post_info.some /\ Eligible(post_info.v)
    /\ \A i \in DOMAIN shared :
          LeftLoop /\ shared[i] = post_info.v.post.postId
C25_Witness ==
    /\ r_pc = "shared" /\ shared = <<post_info.v.post.postId>>
    /\ Cardinality(ban_list) = 2 /\ max_att < MaxAttempts
    /\ post_info.v.post.shareTree # <<>>
    /\ post_info.v.post.shareTree[1].postingProject.projectId
          # post_info.v.post.postingProject.projectId
    /\ Len(post_info.v.post.tags) = 2 /\ eft = <<Art>>
    /\ verify_with = Some(Art)
====
